---- MODULE Spec2Model ----
(***************************************************************************)
(* Conversation-history and knowledge-base injection logic of the two AI   *)
(* provider adapters (app/services/deepseek_service.py and                 *)
(* app/services/gemini_service.py) over their shelve stores.               *)
(*                                                                         *)
(* Strings are modelled as sequences of tokens, so that concatenation is   *)
(* \o and the empty string (falsy in Python) is << >>.                     *)
(*                                                                         *)
(* generate_ai_response is split at its blocking points: the storage read, *)
(* the external AI call and the storage write.  Everything the handler     *)
(* does locally between two blocking points belongs to the step before.    *)
(*                                                                         *)
(* The module also holds the knowledge base loader of app/utils/           *)
(* file_parser.py (LoaderSpec) and the provider router generate_response   *)
(* of app/utils/whatsapp_utils.py (RouterSpec).                            *)
(***************************************************************************)
EXTENDS Integers, Sequences, FiniteSets, TLC

VARIABLES
    shelf,                    \* shelve files: db name -> wa_id -> entry
    client,                   \* deepseek_service.client is not None
    KNOWLEDGE_BASE_CONTENT,   \* deepseek_service.KNOWLEDGE_BASE_CONTENT
    GEMINI_API_KEY,           \* gemini_service.GEMINI_API_KEY is set
    model,                    \* gemini_service.model is not None
    active_system_instructions,      \* gemini_service, line 35
    GEMINI_KNOWLEDGE_BASE_CONTENT,   \* gemini_service.KNOWLEDGE_BASE_CONTENT
    pc,                       \* position of each request thread
    frame,                    \* locals of each request thread
    ret,                      \* value returned by the thread's call
    io,                       \* storage reads/writes and AI calls of the call
    calls,                    \* generate calls started so far
    directory,                \* what the knowledge base path names
    listing,                  \* os.listdir of the knowledge base directory
    files,                    \* what each listed entry is
    PANDAS_AVAILABLE,         \* file_parser.PANDAS_AVAILABLE
    loaded,                   \* result of load_knowledge_from_directory
    AI_PROVIDER,              \* the AI_PROVIDER environment variable
    router                    \* locals of generate_response, per thread

\* What gemini_service computes its system instruction from
instructions == <<active_system_instructions, GEMINI_KNOWLEDGE_BASE_CONTENT>>

\* The knowledge base directory and its loading
loader == <<directory, listing, files, PANDAS_AVAILABLE, loaded>>

vars == <<shelf, client, KNOWLEDGE_BASE_CONTENT, GEMINI_API_KEY, model,
          instructions, pc, frame, ret, io, calls, loader, AI_PROVIDER,
          router>>

\* What is fixed when the modules are imported
deployment == <<client, KNOWLEDGE_BASE_CONTENT, GEMINI_API_KEY, model,
                instructions, loader, AI_PROVIDER>>

\* What no step of an adapter changes
config == <<deployment, router>>

-----------------------------------------------------------------------------
(* Bounds *)

MaxCalls == 2

\* Entries of the knowledge base directory
MaxFiles == 4

-----------------------------------------------------------------------------
(* Input sets *)

Users == {"u1", "u2"}

Prompts == {<<"p1">>, <<"p2">>}

Threads == {1, 2}

SeqThreads == {1}

KnowledgeBases == {<< >>, <<"kb">>}

\* GEMINI_ASSISTANT_INSTRUCTIONS or the system prompt file: unset or a text
SystemInstructions == {<< >>, <<"Be concise.">>}

-----------------------------------------------------------------------------
(* Program constants *)

DEEPSEEK_THREADS_DB == "deepseek_threads_db"

\* Both adapters opening the same shelve file
GEMINI_THREADS_DB_Shared == "deepseek_threads_db"

GEMINI_THREADS_DB == "gemini_threads_db"

DbNames == {"deepseek_threads_db", "gemini_threads_db"}

DeepSeekNotInitialized == <<"Error: DeepSeek client not initialized.">>

DeepSeekApology == <<"Sorry, I couldn't process that response from DeepSeek.">>

DeepSeekCommError(e) == <<"Error communicating with DeepSeek: ", e>>

GeminiNoKey == <<"Error: Gemini API key not configured.">>

GeminiNoModel == <<"Error: Gemini model not initialized.">>

GeminiApology == <<"Sorry, I couldn't process that response from Gemini.">>

GeminiCommError(e) == <<"Error communicating with Gemini: ", e>>

-----------------------------------------------------------------------------
(* Messages *)

SystemMessage(kb) ==
    [role |-> "system",
     content |-> <<"You are an AI assistant. ---BEGIN KNOWLEDGE BASE---">>
                 \o kb \o <<"---END KNOWLEDGE BASE---">>]

UserMessage(prompt) == [role |-> "user", content |-> prompt]

AssistantMessage(text) == [role |-> "assistant", content |-> text]

\* genai Content objects: a role and a list of parts
UserContent(prompt) == [role |-> "user", parts |-> <<prompt>>]

ModelContent(parts) == [role |-> "model", parts |-> parts]

Pop(s) == SubSeq(s, 1, Len(s) - 1)

-----------------------------------------------------------------------------
(* shelve *)

NoEntry == [present |-> FALSE, turns |-> << >>]

Entry(history) == [present |-> TRUE, turns |-> history]

\* S_DB.get(wa_id, default)
ShelfGet(db, wa_id, default) ==
    IF shelf[db][wa_id].present THEN shelf[db][wa_id].turns ELSE default

IsPrefix(a, b) == Len(a) <= Len(b) /\ SubSeq(b, 1, Len(a)) = a

\* A put that writes the history under every key of the store
ShelfPut_EveryKey(db, wa_id, history) ==
    [shelf EXCEPT ![db] = [u \in Users |-> Entry(history)]]

\* A put that adds the written history after what another caller stored
\* since the history was read, instead of replacing it
ShelfPut_Extend(db, wa_id, history) ==
    LET stored == shelf[db][wa_id].turns
        extended == IF IsPrefix(stored, history)
                      THEN history
                      ELSE stored \o history
    IN  [shelf EXCEPT ![db] = [@ EXCEPT ![wa_id] = Entry(extended)]]

\* A put that keeps what another caller stored since the history was read:
\* the new exchange is appended to the stored history
ShelfPut_Merge(db, wa_id, history) ==
    LET stored == shelf[db][wa_id].turns
        merged == IF IsPrefix(stored, history) \/ Len(history) < 2
                    THEN history
                    ELSE stored \o SubSeq(history, Len(history) - 1,
                                          Len(history))
    IN  [shelf EXCEPT ![db] = [@ EXCEPT ![wa_id] = Entry(merged)]]

\* S_DB[wa_id] = history
ShelfPut(db, wa_id, history) ==
    [shelf EXCEPT ![db] = [@ EXCEPT ![wa_id] = Entry(history)]]

check_if_deepseek_thread_exists(wa_id) ==
    ShelfGet(DEEPSEEK_THREADS_DB, wa_id, << >>)

store_deepseek_thread(wa_id, history) ==
    ShelfPut(DEEPSEEK_THREADS_DB, wa_id, history)

\* None is modelled by the absent entry itself
check_if_gemini_thread_exists(wa_id) == shelf[GEMINI_THREADS_DB][wa_id]

store_gemini_thread(wa_id, history) ==
    ShelfPut(GEMINI_THREADS_DB, wa_id, history)

-----------------------------------------------------------------------------
(* Responses of the external AI backends *)

\* chat_completion.choices: each choice has an optional message with content
Choice(hasMessage, content) == [message |-> hasMessage, content |-> content]

DeepSeekResponses ==
    { << >>,
      <<Choice(FALSE, << >>)>>,
      <<Choice(TRUE, << >>)>>,
      <<Choice(TRUE, <<"r1">>)>>,
      <<Choice(TRUE, <<"r1">>), Choice(TRUE, <<"r2">>)>> }

\* chat_completion.choices and choices[0].message and choices[0].message.content
DeepSeekUsable(choices) ==
    /\ choices # << >>
    /\ choices[1].message
    /\ choices[1].content # << >>

\* response.candidates: each candidate is the list of its content's parts,
\* each part a text
GeminiResponses ==
    { << >>,
      << << >> >>,
      << << <<"r1">> >> >>,
      << << <<"r1">> >>, << <<"r2">> >> >> }

\* response.candidates and response.candidates[0].content.parts
GeminiUsable(candidates) ==
    /\ candidates # << >>
    /\ candidates[1] # << >>

\* What the genai ChatSession does with a response that has no candidate is
\* not fixed by this repository: it raises, or it returns the response and
\* leaves chat.history as it was (there is no reply to record).
NoCandidateModes == {"raise", "unchanged"}

-----------------------------------------------------------------------------
(* gemini_service: the system instruction the model is created with *)

Whitespace == {"\\n\\n", "\\n", " "}

RECURSIVE StripLeft(_)
StripLeft(s) ==
    IF s # << >> /\ Head(s) \in Whitespace THEN StripLeft(Tail(s)) ELSE s

RECURSIVE StripRight(_)
StripRight(s) ==
    IF s # << >> /\ s[Len(s)] \in Whitespace THEN StripRight(Pop(s)) ELSE s

\* str.strip()
Strip(s) == StripRight(StripLeft(s))

\* line 46
KnowledgePreamble(kb) ==
    <<"\\n\\n",
      "Use the following information from the knowledge base to answer user questions. Prioritize this information above all other knowledge:\\n---\\n">>
    \o kb \o <<"\\n---">>

\* The knowledge preamble added whether or not there is a knowledge base
FinalSystemInstructions_PreambleWithoutKb(active, kb) ==
    IF active # << >>
      THEN active \o KnowledgePreamble(kb)
      ELSE Strip(KnowledgePreamble(kb))

\* lines 44-51
FinalSystemInstructions(active, kb) ==
    IF kb # << >>
      THEN IF active # << >>
             THEN active \o KnowledgePreamble(kb)
             ELSE Strip(KnowledgePreamble(kb))
      ELSE active

final_system_instructions ==
    FinalSystemInstructions(active_system_instructions,
                            GEMINI_KNOWLEDGE_BASE_CONTENT)

\* Optional values: None and a value
None == << >>

Some(x) == <<x>>

\* line 68: system_instruction=final_system_instructions if ... else None
SystemInstructionArgument(final) ==
    IF final # << >> THEN Some(final) ELSE None

\* lines 63-69: the system_instruction of the GenerativeModel, when created
system_instruction == SystemInstructionArgument(final_system_instructions)

-----------------------------------------------------------------------------
(* file_parser: the knowledge base directory *)

\* File names are sequences of characters
FileNames ==
    { <<"a", ".", "t", "x", "t">>,
      <<"a", ".", "z", "i", "p">>,
      <<"b", ".", "T", "X", "T">>,
      <<"c", ".", "p", "d", "f">>,
      <<"d", ".", "x", "l", "s", "x">> }

\* ord() of the characters of the file names
CodePoint ==
    [c \in {".", "T", "X", "a", "b", "c", "d", "f", "i", "l", "p",
            "s", "t", "x", "z"} |->
       CASE c = "." -> 46  [] c = "T" -> 84
         [] c = "X" -> 88  [] c = "a" -> 97  [] c = "b" -> 98
         [] c = "c" -> 99  [] c = "d" -> 100 [] c = "f" -> 102
         [] c = "i" -> 105 [] c = "l" -> 108 [] c = "p" -> 112
         [] c = "s" -> 115 [] c = "t" -> 116 [] c = "x" -> 120
         [] c = "z" -> 122]

\* str.lower()
LowerChar(c) ==
    CASE c = "T" -> "t" [] c = "X" -> "x" [] OTHER -> c

Lower(s) == [i \in DOMAIN s |-> LowerChar(s[i])]

\* a < b on str
RECURSIVE Less(_, _)
Less(a, b) ==
    IF a = << >> THEN b # << >>
    ELSE IF b = << >> THEN FALSE
    ELSE IF Head(a) = Head(b) THEN Less(Tail(a), Tail(b))
    ELSE CodePoint[Head(a)] < CodePoint[Head(b)]

RECURSIVE Insert(_, _)
Insert(x, s) ==
    IF s = << >> THEN <<x>>
    ELSE IF Less(Head(s), x) THEN <<Head(s)>> \o Insert(x, Tail(s))
    ELSE <<x>> \o s

\* The listing taken as it comes
Sorted_ListingOrder(s) == s

\* sorted()
RECURSIVE Sorted(_)
Sorted(s) == IF s = << >> THEN << >> ELSE Insert(Head(s), Sorted(Tail(s)))

\* os.path.splitext(...)[1]: from the last dot, leading dots not counted
Extension(s) ==
    LET dots == {i \in DOMAIN s : s[i] = "." /\ \E j \in 1..(i - 1) : s[j] # "."}
    IN  IF dots = {} THEN << >>
        ELSE LET last == CHOOSE i \in dots : \A j \in dots : j <= i
             IN  SubSeq(s, last, Len(s))

ExcelExtensions == {<<".", "x", "l", "s", "x">>, <<".", "x", "l", "s">>}

\* lines 17-19
SUPPORTED_EXTENSIONS ==
    {<<".", "p", "d", "f">>, <<".", "d", "o", "c", "x">>,
     <<".", "t", "x", "t">>}
    \cup (IF PANDAS_AVAILABLE THEN ExcelExtensions ELSE {})

\* What a directory entry is: a directory, or a file whose extraction yields
\* text, yields the empty string or raises
EntryKinds == {"directory", "text", "empty", "raises"}

\* The text an extractor returns for a file that has some
FileText == <<"text">>

\* lines 57-97: every exception is caught and turned into ""
load_and_extract_text(filename) ==
    LET extension == Extension(Lower(filename))
    IN  IF extension \in {<<".", "p", "d", "f">>, <<".", "d", "o", "c", "x">>,
                          <<".", "t", "x", "t">>} \cup ExcelExtensions
          THEN IF extension \in ExcelExtensions /\ ~PANDAS_AVAILABLE
                 THEN << >>
                 ELSE IF files[filename] = "text" THEN FileText ELSE << >>
          ELSE << >>

\* line 131: "--- Content from: {filename} ---\n{text}\n\n"
Chunk(filename, text) == [marker |-> filename, text |-> text]

\* lines 119-131: the chunks of the entries of a listing, in its order
RECURSIVE Scan(_)
Scan(names) ==
    IF names = << >> THEN << >>
    ELSE LET filename == Head(names)
             text == load_and_extract_text(filename)
             chunk == IF /\ files[filename] # "directory"
                         /\ Extension(Lower(filename)) \in SUPPORTED_EXTENSIONS
                         /\ text # << >>
                        THEN <<Chunk(filename, text)>>
                        ELSE << >>
         IN  chunk \o Scan(Tail(names))

\* lines 99-141; the result is the sequence of chunks that are joined
load_knowledge_from_directory ==
    IF directory # "directory" THEN << >> ELSE Scan(Sorted(listing))

\* generate_response is not running
NoRoute ==
    [at |-> "idle", message_body |-> << >>, wa_id |-> "none",
     name |-> "none", ai_provider |-> "none", invoked |-> "none",
     args |-> << >>, response_text |-> << >>]

\* The adapters are called directly
RouterIdle ==
    /\ AI_PROVIDER = "unset"
    /\ router = [t \in Threads |-> NoRoute]

NotLoaded == [done |-> FALSE, content |-> << >>]

\* A listing holds each name once
Listings ==
    {s \in UNION {[1..n -> FileNames] : n \in 0..MaxFiles} :
        \A i, j \in DOMAIN s : i # j => s[i] # s[j]}

Range(s) == {s[i] : i \in DOMAIN s}

\* No knowledge base path is read
LoaderIdle ==
    /\ directory = "unset"
    /\ listing = << >>
    /\ files = << >>
    /\ PANDAS_AVAILABLE = FALSE
    /\ loaded = NotLoaded

-----------------------------------------------------------------------------
(* Threads *)

NoFrame ==
    [provider |-> "none", wa_id |-> "none", prompt |-> << >>,
     before |-> NoEntry, fetched |-> << >>, history |-> << >>,
     response |-> << >>, usable |-> FALSE, raised |-> "none"]

NoIO == [reads |-> 0, writes |-> 0, ai |-> 0]

Init ==
    /\ shelf = [db \in DbNames |-> [u \in Users |-> NoEntry]]
    /\ client \in BOOLEAN
    /\ KNOWLEDGE_BASE_CONTENT \in KnowledgeBases
    /\ GEMINI_API_KEY \in BOOLEAN
    /\ model \in BOOLEAN
    /\ (model => GEMINI_API_KEY)
    /\ active_system_instructions \in SystemInstructions
    /\ GEMINI_KNOWLEDGE_BASE_CONTENT \in KnowledgeBases
    /\ pc = [t \in Threads |-> "idle"]
    /\ frame = [t \in Threads |-> NoFrame]
    /\ ret = [t \in Threads |-> << >>]
    /\ io = [t \in Threads |-> NoIO]
    /\ calls = 0
    /\ LoaderIdle
    /\ RouterIdle

Returned(t, value) ==
    /\ ret' = [ret EXCEPT ![t] = value]
    /\ pc' = [pc EXCEPT ![t] = "done"]

Count(t, what) == io' = [io EXCEPT ![t][what] = @ + 1]

-----------------------------------------------------------------------------
(* deepseek_service.generate_ai_response *)

\* lines 53-57: entry and the client check
DeepSeekCall(t) ==
    /\ pc[t] = "idle"
    /\ calls < MaxCalls
    /\ calls' = calls + 1
    /\ \E wa_id \in Users, prompt \in Prompts :
          frame' = [frame EXCEPT ![t] =
                      [NoFrame EXCEPT !.provider = "deepseek",
                                      !.wa_id = wa_id,
                                      !.prompt = prompt,
                                      !.before = shelf[DEEPSEEK_THREADS_DB][wa_id]]]
    /\ io' = [io EXCEPT ![t] = NoIO]
    /\ IF ~client
         THEN Returned(t, DeepSeekNotInitialized)
         ELSE /\ pc' = [pc EXCEPT ![t] = "ds_read"]
              /\ ret' = [ret EXCEPT ![t] = << >>]
    /\ UNCHANGED <<shelf, config>>

\* The system message added on every call, whatever the fetched history
DeepSeekMessages_AlwaysInject(fetched, kb, prompt) ==
    LET withSystem == IF kb # << >>
                        THEN Append(fetched, SystemMessage(kb))
                        ELSE fetched
    IN  Append(withSystem, UserMessage(prompt))

\* The two appends in the wrong order
DeepSeekMessages_SystemAfterUser(fetched, kb, prompt) ==
    LET withUser == Append(fetched, UserMessage(prompt))
    IN  IF fetched = << >> /\ kb # << >>
          THEN Append(withUser, SystemMessage(kb))
          ELSE withUser

\* The system message never installed
DeepSeekMessages_NeverInject(fetched, kb, prompt) ==
    Append(fetched, UserMessage(prompt))

\* The system message installed for a new conversation even without a
\* knowledge base
DeepSeekMessages_InjectEmptyKb(fetched, kb, prompt) ==
    LET withSystem == IF fetched = << >>
                        THEN Append(fetched, SystemMessage(kb))
                        ELSE fetched
    IN  Append(withSystem, UserMessage(prompt))

\* lines 67-70: the outbound message list built from the fetched history
DeepSeekMessages(fetched, kb, prompt) ==
    LET withSystem == IF fetched = << >> /\ kb # << >>
                        THEN Append(fetched, SystemMessage(kb))
                        ELSE fetched
    IN  Append(withSystem, UserMessage(prompt))

\* The storage and API calls left outside the try block
DeepSeekExcept_Escapes(t, e) ==
    /\ pc' = [pc EXCEPT ![t] = "escaped"]
    /\ UNCHANGED <<ret, shelf>>

\* A failed API call tried once more before giving up
DeepSeekExcept_RetriesOnce(t, e) ==
    IF e = "api_exc" /\ io[t].ai = 0
      THEN /\ pc' = [pc EXCEPT ![t] = "ds_create"]
           /\ UNCHANGED <<ret, shelf>>
      ELSE /\ Returned(t, DeepSeekCommError(e))
           /\ UNCHANGED shelf

\* lines 92-94: the handler of any exception raised inside the try block
DeepSeekExcept(t, e) ==
    /\ Returned(t, DeepSeekCommError(e))
    /\ UNCHANGED shelf

\* lines 60-70
DeepSeekRead(t) ==
    /\ pc[t] = "ds_read"
    /\ Count(t, "reads")
    /\ \E opened \in BOOLEAN :
          IF opened
            THEN LET fetched == check_if_deepseek_thread_exists(frame[t].wa_id)
                 IN  /\ frame' = [frame EXCEPT
                            ![t].fetched = fetched,
                            ![t].history = DeepSeekMessages(fetched,
                                              KNOWLEDGE_BASE_CONTENT, frame[t].prompt)]
                     /\ pc' = [pc EXCEPT ![t] = "ds_create"]
                     /\ UNCHANGED <<ret, shelf>>
            ELSE /\ frame' = [frame EXCEPT ![t].raised = "storage_read_exc"]
                 /\ DeepSeekExcept(t, "storage_read_exc")
    /\ UNCHANGED <<config, calls>>

\* The speculative user turn kept on a malformed response
DeepSeekAfterResponse_NoPop(history, choices) ==
    IF DeepSeekUsable(choices)
      THEN Append(history, AssistantMessage(choices[1].content))
      ELSE history

\* The reply taken from the last choice
DeepSeekAfterResponse_LastChoice(history, choices) ==
    IF DeepSeekUsable(choices)
      THEN Append(history, AssistantMessage(choices[Len(choices)].content))
      ELSE Pop(history)

\* lines 77-79 and 85: the in-memory history after the response is examined
DeepSeekAfterResponse(history, choices) ==
    IF DeepSeekUsable(choices)
      THEN Append(history, AssistantMessage(choices[1].content))
      ELSE Pop(history)

\* lines 72-79 and 83-85
DeepSeekCreate(t) ==
    /\ pc[t] = "ds_create"
    /\ Count(t, "ai")
    /\ \/ /\ frame' = [frame EXCEPT ![t].raised = "api_exc"]
          /\ DeepSeekExcept(t, "api_exc")
       \/ \E choices \in DeepSeekResponses :
             /\ frame' = [frame EXCEPT
                    ![t].response = choices,
                    ![t].usable = DeepSeekUsable(choices),
                    ![t].history = DeepSeekAfterResponse(frame[t].history, choices)]
             /\ pc' = [pc EXCEPT ![t] = "ds_store"]
             /\ UNCHANGED <<ret, shelf>>
    /\ UNCHANGED <<config, calls>>

\* The rolled-back history stored as it is, a lone system message included
DeepSeekToStore_KeepsLoneSystem(history, usable) == history

\* The history cleared after any malformed response
DeepSeekToStore_ClearsOnMalformed(history, usable) ==
    IF usable THEN history ELSE << >>

\* lines 80 and 87-90: the value handed to store_deepseek_thread
DeepSeekToStore(history, usable) ==
    IF usable
      THEN history
      ELSE IF Len(history) = 1 /\ history[1].role = "system"
             THEN << >>
             ELSE history

\* lines 82 and 91
DeepSeekResult(choices, usable) ==
    IF usable THEN choices[1].content ELSE DeepSeekApology

\* lines 80-82 and 86-91
DeepSeekStore(t) ==
    /\ pc[t] = "ds_store"
    /\ Count(t, "writes")
    /\ \E opened \in BOOLEAN :
          IF opened
            THEN /\ shelf' = store_deepseek_thread(frame[t].wa_id,
                                DeepSeekToStore(frame[t].history, frame[t].usable))
                 /\ Returned(t, DeepSeekResult(frame[t].response, frame[t].usable))
                 /\ UNCHANGED frame
            ELSE /\ frame' = [frame EXCEPT ![t].raised = "storage_write_exc"]
                 /\ DeepSeekExcept(t, "storage_write_exc")
    /\ UNCHANGED <<config, calls>>

\* line 116 of the module's self-test: store_deepseek_thread(test_wa_id, [])
DeepSeekClear(t) ==
    /\ pc[t] = "idle"
    /\ \E wa_id \in Users : shelf' = store_deepseek_thread(wa_id, << >>)
    /\ UNCHANGED <<config, pc, frame, ret, io, calls>>

-----------------------------------------------------------------------------
(* gemini_service.generate_ai_response *)

\* The model check forgotten
GeminiGuard_KeyOnly ==
    IF ~GEMINI_API_KEY THEN GeminiNoKey ELSE << >>

\* lines 94-101: entry and the key and model checks
GeminiGuard ==
    IF ~GEMINI_API_KEY THEN GeminiNoKey
    ELSE IF ~model THEN GeminiNoModel
    ELSE << >>

\* lines 90-103 for given arguments
GeminiEnter(t, wa_id, prompt) ==
    /\ pc[t] = "idle"
    /\ calls < MaxCalls
    /\ calls' = calls + 1
    /\ frame' = [frame EXCEPT ![t] =
                   [NoFrame EXCEPT !.provider = "gemini",
                                   !.wa_id = wa_id,
                                   !.prompt = prompt,
                                   !.before = shelf[GEMINI_THREADS_DB][wa_id]]]
    /\ io' = [io EXCEPT ![t] = NoIO]
    /\ IF GeminiGuard # << >>
         THEN Returned(t, GeminiGuard)
         ELSE /\ pc' = [pc EXCEPT ![t] = "gm_read"]
              /\ ret' = [ret EXCEPT ![t] = << >>]
    /\ UNCHANGED <<shelf, deployment>>

GeminiCall(t) ==
    /\ \E wa_id \in Users, prompt \in Prompts : GeminiEnter(t, wa_id, prompt)
    /\ UNCHANGED router

\* The handler with its commented-out store_gemini_thread(wa_id, []) enabled
GeminiExcept_ClearsHistory(t, e) ==
    /\ Returned(t, GeminiCommError(e))
    /\ shelf' = store_gemini_thread(frame[t].wa_id, << >>)

\* lines 123-129: the handler of any exception raised inside the try block
GeminiExcept(t, e) ==
    /\ Returned(t, GeminiCommError(e))
    /\ UNCHANGED shelf

\* line 109: model.start_chat(history=existing_history or [])
\* The system instruction sent as the first message of a new chat
StartChat_InjectsSystem(existing) ==
    IF existing.present /\ existing.turns # << >>
      THEN existing.turns
      ELSE IF final_system_instructions # << >>
             THEN <<[role |-> "system",
                     parts |-> <<final_system_instructions>>]>>
             ELSE << >>

StartChat(existing) == IF existing.present THEN existing.turns ELSE << >>

\* lines 105-109
GeminiRead(t) ==
    /\ pc[t] = "gm_read"
    /\ Count(t, "reads")
    /\ \E opened \in BOOLEAN :
          IF opened
            THEN LET existing == check_if_gemini_thread_exists(frame[t].wa_id)
                 IN  /\ frame' = [frame EXCEPT
                            ![t].fetched = StartChat(existing),
                            ![t].history = StartChat(existing)]
                     /\ pc' = [pc EXCEPT ![t] = "gm_send"]
                     /\ UNCHANGED <<ret, shelf>>
            ELSE /\ frame' = [frame EXCEPT ![t].raised = "storage_read_exc"]
                 /\ GeminiExcept(t, "storage_read_exc")
    /\ UNCHANGED <<config, calls>>

\* lines 111-114: chat.history once send_message has returned a response with
\* a candidate ("now includes the user's prompt and AI's response")
ChatHistory(history, prompt, candidates) ==
    history \o <<UserContent(prompt), ModelContent(candidates[1])>>

\* chat.history when the response has no candidate and nothing was raised
ChatHistoryNoCandidate(history, prompt) == history

\* line 111
GeminiSendMessage(t) ==
    /\ pc[t] = "gm_send"
    /\ Count(t, "ai")
    /\ \/ /\ frame' = [frame EXCEPT ![t].raised = "api_exc"]
          /\ GeminiExcept(t, "api_exc")
       \/ \E candidates \in GeminiResponses :
             IF candidates # << >>
               THEN /\ frame' = [frame EXCEPT
                           ![t].response = candidates,
                           ![t].usable = GeminiUsable(candidates),
                           ![t].history = ChatHistory(frame[t].history,
                                              frame[t].prompt, candidates)]
                    /\ pc' = [pc EXCEPT ![t] = "gm_store"]
                    /\ UNCHANGED <<ret, shelf>>
               ELSE \E mode \in NoCandidateModes :
                       IF mode = "raise"
                         THEN /\ frame' = [frame EXCEPT ![t].raised = "lib_exc"]
                              /\ GeminiExcept(t, "lib_exc")
                         ELSE /\ frame' = [frame EXCEPT
                                     ![t].response = candidates,
                                     ![t].usable = FALSE,
                                     ![t].history = ChatHistoryNoCandidate(
                                         frame[t].history, frame[t].prompt)]
                              /\ pc' = [pc EXCEPT ![t] = "gm_store"]
                              /\ UNCHANGED <<ret, shelf>>
    /\ UNCHANGED <<config, calls>>

\* lines 116-122
GeminiResult(candidates, usable) ==
    IF usable THEN candidates[1][1] ELSE GeminiApology

\* The response validated before the store: the turns of an exchange without
\* usable content are dropped from what is stored
GeminiToStore_ValidatedFirst(history, usable) ==
    IF usable \/ Len(history) < 2
      THEN history
      ELSE SubSeq(history, 1, Len(history) - 2)

\* line 114: the value handed to store_gemini_thread
GeminiToStore(history, usable) == history

\* lines 114-122
GeminiStore(t) ==
    /\ pc[t] = "gm_store"
    /\ Count(t, "writes")
    /\ \E opened \in BOOLEAN :
          IF opened
            THEN /\ shelf' = store_gemini_thread(frame[t].wa_id,
                                GeminiToStore(frame[t].history, frame[t].usable))
                 /\ Returned(t, GeminiResult(frame[t].response, frame[t].usable))
                 /\ UNCHANGED frame
            ELSE /\ frame' = [frame EXCEPT ![t].raised = "storage_write_exc"]
                 /\ GeminiExcept(t, "storage_write_exc")
    /\ UNCHANGED <<config, calls>>

\* line 153 of the module's self-test: store_gemini_thread(test_wa_id, [])
GeminiClear(t) ==
    /\ pc[t] = "idle"
    /\ \E wa_id \in Users : shelf' = store_gemini_thread(wa_id, << >>)
    /\ UNCHANGED <<config, pc, frame, ret, io, calls>>

-----------------------------------------------------------------------------

\* The caller takes the returned string; the thread is free for the next message
Return(t) ==
    /\ pc[t] = "done"
    /\ pc' = [pc EXCEPT ![t] = "idle"]
    /\ frame' = [frame EXCEPT ![t] = NoFrame]
    /\ ret' = [ret EXCEPT ![t] = << >>]
    /\ io' = [io EXCEPT ![t] = NoIO]
    /\ UNCHANGED <<shelf, config, calls>>

Step(t) ==
    \/ DeepSeekCall(t)
    \/ DeepSeekRead(t)
    \/ DeepSeekCreate(t)
    \/ DeepSeekStore(t)
    \/ DeepSeekClear(t)
    \/ GeminiCall(t)
    \/ GeminiRead(t)
    \/ GeminiSendMessage(t)
    \/ GeminiStore(t)
    \/ GeminiClear(t)
    \/ Return(t)

\* One request thread: messages are handled one after the other
Next == \E t \in SeqThreads : Step(t)

Spec == Init /\ [][Next]_vars

\* Two request threads: the web server handles two deliveries at once
\* Both adapters configured, as in a deployment that serves messages
InitConc ==
    /\ Init
    /\ client
    /\ model
    /\ active_system_instructions # << >>
    /\ GEMINI_KNOWLEDGE_BASE_CONTENT # << >>

\* What a request thread runs: generate_ai_response of either adapter (the
\* clear functions are called by no request handler)
ServeStep(t) ==
    \/ DeepSeekCall(t)
    \/ DeepSeekRead(t)
    \/ DeepSeekCreate(t)
    \/ DeepSeekStore(t)
    \/ GeminiCall(t)
    \/ GeminiRead(t)
    \/ GeminiSendMessage(t)
    \/ GeminiStore(t)
    \/ Return(t)

NextConc == \E t \in Threads : ServeStep(t)

SpecConc == InitConc /\ [][NextConc]_vars

\* A clear of a conversation that holds history, as the self-tests do after
\* their messages
ClearActive(t) ==
    \/ /\ DeepSeekClear(t)
       /\ \E u \in Users :
            /\ shelf[DEEPSEEK_THREADS_DB][u].turns # << >>
            /\ shelf'[DEEPSEEK_THREADS_DB][u].turns = << >>
    \/ /\ GeminiClear(t)
       /\ \E u \in Users :
            /\ shelf[GEMINI_THREADS_DB][u].turns # << >>
            /\ shelf'[GEMINI_THREADS_DB][u].turns = << >>

\* Both adapters configured, with a knowledge base
InitFrame == InitConc /\ KNOWLEDGE_BASE_CONTENT # << >>

\* Two threads that generate and clear
NextFrame == \E t \in Threads : ServeStep(t) \/ ClearActive(t)

SpecFrame == InitFrame /\ [][NextFrame]_vars

-----------------------------------------------------------------------------
(* The knowledge base loader on its own *)

\* No adapter is configured and nothing is stored
NoAdapters ==
    /\ shelf = [db \in DbNames |-> [u \in Users |-> NoEntry]]
    /\ client = FALSE
    /\ KNOWLEDGE_BASE_CONTENT = << >>
    /\ GEMINI_API_KEY = FALSE
    /\ model = FALSE
    /\ active_system_instructions = << >>
    /\ GEMINI_KNOWLEDGE_BASE_CONTENT = << >>
    /\ pc = [t \in Threads |-> "idle"]
    /\ frame = [t \in Threads |-> NoFrame]
    /\ ret = [t \in Threads |-> << >>]
    /\ io = [t \in Threads |-> NoIO]
    /\ calls = 0
    /\ RouterIdle

\* The path is unset, names no directory, or names a directory
LoaderInit ==
    /\ NoAdapters
    /\ directory \in {"unset", "missing", "directory"}
    /\ listing \in Listings
    /\ (directory # "directory" => listing = << >>)
    /\ files \in [Range(listing) -> EntryKinds]
    /\ PANDAS_AVAILABLE \in BOOLEAN
    /\ loaded = NotLoaded

Load ==
    /\ ~loaded.done
    /\ loaded' = [done |-> TRUE, content |-> load_knowledge_from_directory]
    /\ UNCHANGED <<shelf, client, KNOWLEDGE_BASE_CONTENT, GEMINI_API_KEY,
                   model, instructions, pc, frame, ret, io, calls,
                   directory, listing, files, PANDAS_AVAILABLE,
                   AI_PROVIDER, router>>

LoaderNext == Load

LoaderSpec == LoaderInit /\ [][LoaderNext]_vars

-----------------------------------------------------------------------------
(* whatsapp_utils.generate_response *)

\* Values of the AI_PROVIDER environment variable
ProviderSettings ==
    {"unset", "gemini", "Gemini", "deepseek", "DeepSeek", "openai", "mistral"}

Names == {"Ann"}

\* str.lower() on the settings
LowerSetting(s) ==
    CASE s = "Gemini" -> "gemini" [] s = "DeepSeek" -> "deepseek" [] OTHER -> s

\* line 52: os.getenv("AI_PROVIDER", "gemini").lower()
ai_provider == LowerSetting(IF AI_PROVIDER = "unset" THEN "gemini" ELSE AI_PROVIDER)

\* line 53
Sorry(provider) ==
    <<"Sorry, I couldn't process your request using ", provider, ".">>

\* line 65
NotAvailable(provider) ==
    <<"AI Provider '", provider, "' is not available in this demo configuration.">>

\* The deployment the router runs in: it imports gemini_service only
RouterInit ==
    /\ shelf = [db \in DbNames |-> [u \in Users |-> NoEntry]]
    /\ client = FALSE
    /\ KNOWLEDGE_BASE_CONTENT = << >>
    /\ GEMINI_API_KEY \in BOOLEAN
    /\ model \in BOOLEAN
    /\ (model => GEMINI_API_KEY)
    /\ active_system_instructions \in SystemInstructions
    /\ GEMINI_KNOWLEDGE_BASE_CONTENT \in KnowledgeBases
    /\ pc = [t \in Threads |-> "idle"]
    /\ frame = [t \in Threads |-> NoFrame]
    /\ ret = [t \in Threads |-> << >>]
    /\ io = [t \in Threads |-> NoIO]
    /\ calls = 0
    /\ LoaderIdle
    /\ AI_PROVIDER \in ProviderSettings
    /\ router = [t \in Threads |-> NoRoute]

\* lines 58 and 70: response_text = gemini_service.generate_ai_response(...)
RouterRelay(t) == ret[t]

\* lines 52-58 and 66-70: the Gemini branch and the fallback branch call
\* gemini_service.generate_ai_response(message_body, wa_id, name)
RouterCallGemini(t) ==
    /\ router[t].at = "idle"
    /\ ai_provider = "gemini" \/ ai_provider \notin {"openai", "deepseek"}
    /\ \E message_body \in Prompts, wa_id \in Users, name \in Names :
         /\ GeminiEnter(t, wa_id, message_body)
         /\ router' = [router EXCEPT ![t] =
                         [at |-> "in_adapter",
                          message_body |-> message_body,
                          wa_id |-> wa_id,
                          name |-> name,
                          ai_provider |-> ai_provider,
                          invoked |-> "gemini",
                          args |-> <<message_body, wa_id, name>>,
                          response_text |-> Sorry(ai_provider)]]

\* lines 52-53 and 63-65: no adapter is called for openai and deepseek
RouterUnavailable(t) ==
    /\ router[t].at = "idle"
    /\ pc[t] = "idle"
    /\ ai_provider \in {"openai", "deepseek"}
    /\ calls < MaxCalls
    /\ calls' = calls + 1
    /\ \E message_body \in Prompts, wa_id \in Users, name \in Names :
         router' = [router EXCEPT ![t] =
                      [at |-> "returning",
                       message_body |-> message_body,
                       wa_id |-> wa_id,
                       name |-> name,
                       ai_provider |-> ai_provider,
                       invoked |-> "none",
                       args |-> << >>,
                       response_text |-> NotAvailable(ai_provider)]]
    /\ UNCHANGED <<shelf, deployment, pc, frame, ret, io>>

\* lines 58 and 70: the adapter has returned
RouterAssign(t) ==
    /\ router[t].at = "in_adapter"
    /\ pc[t] = "done"
    /\ router' = [router EXCEPT ![t].at = "returning",
                                ![t].response_text = RouterRelay(t)]
    /\ UNCHANGED <<shelf, deployment, pc, frame, ret, io, calls>>

\* line 72: return response_text
RouterReturn(t) ==
    /\ router[t].at = "returning"
    /\ router' = [router EXCEPT ![t].at = "returned"]
    /\ UNCHANGED <<shelf, deployment, pc, frame, ret, io, calls>>

\* The caller has taken the response; the thread takes the next message
RouterNextMessage(t) ==
    /\ router[t].at = "returned"
    /\ router' = [router EXCEPT ![t] = NoRoute]
    /\ pc' = [pc EXCEPT ![t] = "idle"]
    /\ frame' = [frame EXCEPT ![t] = NoFrame]
    /\ ret' = [ret EXCEPT ![t] = << >>]
    /\ io' = [io EXCEPT ![t] = NoIO]
    /\ UNCHANGED <<shelf, deployment, calls>>

RouterStep(t) ==
    \/ RouterCallGemini(t)
    \/ RouterUnavailable(t)
    \/ GeminiRead(t)
    \/ GeminiSendMessage(t)
    \/ GeminiStore(t)
    \/ RouterAssign(t)
    \/ RouterReturn(t)
    \/ RouterNextMessage(t)

RouterNext == \E t \in SeqThreads : RouterStep(t)

RouterSpec == RouterInit /\ [][RouterNext]_vars

-----------------------------------------------------------------------------
(* Properties *)

Done(t) == pc[t] = "done"

DbOf(t) ==
    IF frame[t].provider = "deepseek" THEN "deepseek_threads_db"
                                       ELSE "gemini_threads_db"

\* The stored entry of the user the thread's call is for
StoredFor(t) == shelf[DbOf(t)][frame[t].wa_id]

Occurrences(history, message) ==
    Cardinality({i \in DOMAIN history : history[i] = message})

SystemPositions(history) ==
    {i \in DOMAIN history : history[i].role = "system"}

AIExceptions == {"api_exc", "lib_exc"}

StorageExceptions == {"storage_read_exc", "storage_write_exc"}

\* The call got a response from the backend and stored what it decided to
Persisted(t) == Done(t) /\ frame[t].raised = "none" /\ io[t].writes = 1

Succeeded(t) == Persisted(t) /\ frame[t].usable

Malformed(t) == Persisted(t) /\ ~frame[t].usable

CommError(t) ==
    IF frame[t].provider = "deepseek"
      THEN DeepSeekCommError(frame[t].raised)
      ELSE GeminiCommError(frame[t].raised)

Disabled(t) ==
    \/ frame[t].provider = "deepseek" /\ ~client
    \/ frame[t].provider = "gemini" /\ (~GEMINI_API_KEY \/ ~model)

\* C1: with a non-empty knowledge base, the history a successful DeepSeek
\* call persists holds the system-context message exactly once, and a call
\* that found a non-empty history found it there already (the first call
\* added it, a later call adds none).
C1_NoDoubleInjection ==
    \A t \in Threads :
        (Succeeded(t) /\ frame[t].provider = "deepseek"
                      /\ KNOWLEDGE_BASE_CONTENT # << >>)
        => LET system == SystemMessage(KNOWLEDGE_BASE_CONTENT)
           IN  /\ Occurrences(StoredFor(t).turns, system) = 1
               /\ (frame[t].before.turns = << >>
                     => Occurrences(frame[t].fetched, system) = 0)
               /\ (frame[t].before.turns # << >>
                     => Occurrences(frame[t].before.turns, system) = 1)

\* A second successful call for the same user, with a knowledge base
C1_Witness ==
    \E t \in Threads :
        /\ Succeeded(t)
        /\ frame[t].provider = "deepseek"
        /\ KNOWLEDGE_BASE_CONTENT # << >>
        /\ frame[t].before.turns # << >>
        /\ Len(StoredFor(t).turns) = 5

\* C2: every persisted DeepSeek history holds at most one system-role
\* message, and a system-role message it holds is its first element.
C2_SingleLeadingSystem ==
    \A u \in Users :
        LET history == shelf["deepseek_threads_db"][u].turns
        IN  SystemPositions(history) \subseteq {1}

\* A persisted history with a system message and two exchanges
C2_Witness ==
    \E u \in Users :
        LET history == shelf["deepseek_threads_db"][u].turns
        IN  /\ Len(history) = 5
            /\ SystemPositions(history) = {1}

\* C3: on either adapter, a malformed response to the first call for a fresh
\* user leaves that user's persisted history empty (or absent).
C3_RollbackOnMalformed ==
    \A t \in Threads :
        (Malformed(t) /\ frame[t].before.turns = << >>)
        => StoredFor(t).turns = << >>

\* C4: when the external AI call raises, the user's stored entry is the one
\* from before the call, no write was attempted, and the returned string
\* embeds the exception.
C4_TransientErrorLeavesState ==
    \A t \in Threads :
        (Done(t) /\ frame[t].raised \in AIExceptions)
        => /\ StoredFor(t) = frame[t].before
           /\ io[t].writes = 0
           /\ ret[t] = CommError(t)
           /\ ret[t][2] = frame[t].raised

\* The AI call raises for a user who already has a history
C4_Witness ==
    \E t \in Threads :
        /\ Done(t)
        /\ frame[t].raised \in AIExceptions
        /\ frame[t].provider = "gemini"
        /\ frame[t].before.turns # << >>

\* C5: after a malformed DeepSeek response the persisted value is the
\* fetched history H, without the user turn and without an assistant turn,
\* except that the empty sequence is persisted when a lone system message
\* remains; the fixed apology is returned.
C5_DeepSeekMalformedRollback ==
    \A t \in Threads :
        (Malformed(t) /\ frame[t].provider = "deepseek")
        => LET remaining ==
                 IF frame[t].fetched = << >> /\ KNOWLEDGE_BASE_CONTENT # << >>
                   THEN <<SystemMessage(KNOWLEDGE_BASE_CONTENT)>>
                   ELSE frame[t].fetched
               loneSystem ==
                 Len(remaining) = 1 /\ remaining[1].role = "system"
           IN  /\ StoredFor(t).present
               /\ StoredFor(t).turns =
                     IF loneSystem THEN << >> ELSE frame[t].fetched
               /\ ret[t] = DeepSeekApology

\* A malformed response for a user who already has a history
C5_Witness ==
    \E t \in Threads :
        /\ Malformed(t)
        /\ frame[t].provider = "deepseek"
        /\ frame[t].fetched # << >>

\* C6: a call on an adapter that was not initialized has returned the fixed
\* configuration-error string at once, with no storage read, no storage
\* write and no AI call, and the user's stored entry is as before the call.
C6_DisabledAdapter ==
    \A t \in Threads :
        (pc[t] # "idle" /\ Disabled(t))
        => /\ Done(t)
           /\ ret[t] = IF frame[t].provider = "deepseek"
                         THEN DeepSeekNotInitialized
                         ELSE IF ~GEMINI_API_KEY THEN GeminiNoKey
                                                 ELSE GeminiNoModel
           /\ io[t] = NoIO
           /\ StoredFor(t) = frame[t].before

\* A call on a Gemini adapter that has its key but no model
C6_Witness ==
    \E t \in Threads :
        /\ Done(t)
        /\ frame[t].provider = "gemini"
        /\ GEMINI_API_KEY
        /\ ~model

\* C7: no exception leaves generate_ai_response: a call is never in the
\* escaped position, a call under way can always take its next step, and a
\* finished call has returned a string, the error string when something
\* was raised.
C7_AlwaysReturnsString ==
    \A t \in Threads :
        /\ pc[t] # "escaped"
        /\ (pc[t] \notin {"idle", "done"} => ENABLED Step(t))
        /\ (Done(t) => ret[t] # << >>)
        /\ (frame[t].raised # "none" => Done(t) /\ ret[t] = CommError(t))

\* A call whose storage write failed has returned
C7_Witness ==
    \E t \in Threads :
        /\ Done(t)
        /\ frame[t].provider = "deepseek"
        /\ frame[t].raised = "storage_write_exc"

\* C8: a storage failure reaches the caller as an outcome distinct from the
\* AI-failure outcome.
C8_StorageErrorDistinct ==
    \A t \in Threads :
        (Done(t) /\ frame[t].raised \in StorageExceptions)
        => /\ Head(ret[t]) # Head(DeepSeekCommError("api_exc"))
           /\ Head(ret[t]) # Head(GeminiCommError("api_exc"))

DeepSeekStep ==
    \E t \in Threads :
        \/ DeepSeekCall(t) \/ DeepSeekRead(t) \/ DeepSeekCreate(t)
        \/ DeepSeekStore(t) \/ DeepSeekClear(t)

GeminiStep ==
    \E t \in Threads :
        \/ GeminiCall(t) \/ GeminiRead(t) \/ GeminiSendMessage(t)
        \/ GeminiStore(t) \/ GeminiClear(t)

\* C9: a step of one provider's generate or clear leaves every history of
\* the other provider's store unchanged.
C9_ProviderIsolation ==
    [][/\ DeepSeekStep =>
            shelf'["gemini_threads_db"] = shelf["gemini_threads_db"]
       /\ GeminiStep =>
            shelf'["deepseek_threads_db"] = shelf["deepseek_threads_db"]]_vars

\* The same user has a history in both stores
C9_Witness ==
    \E u \in Users :
        /\ shelf["deepseek_threads_db"][u].turns # << >>
        /\ shelf["gemini_threads_db"][u].turns # << >>

\* C10: a call that found the session NEW and left it ACTIVE got a usable
\* reply from the backend.
C10_NewToActiveOnlyOnSuccess ==
    \A t \in Threads :
        (Done(t) /\ frame[t].before.turns = << >>
                 /\ StoredFor(t).turns # << >>)
        => frame[t].usable /\ frame[t].raised = "none"


Clears == \E t \in Threads : DeepSeekClear(t) \/ GeminiClear(t)

\* C11: a stored history that is non-empty becomes empty only in a step of
\* an explicit clear; a generate call that found a non-empty history has
\* left a non-empty one.
C11_ActiveToNewOnlyByClear ==
    [][/\ \A db \in DbNames, u \in Users :
            (shelf[db][u].turns # << >> /\ shelf'[db][u].turns = << >>)
            => Clears
       /\ \A t \in Threads :
            (pc'[t] = "done" /\ frame'[t].before.turns # << >>)
            => shelf'[DbOf(t)'][frame'[t].wa_id].turns # << >>]_vars

\* A malformed DeepSeek response for a user with a stored history
C11_Witness ==
    \E t \in Threads :
        /\ Malformed(t)
        /\ frame[t].provider = "deepseek"
        /\ frame[t].before.turns # << >>
        /\ StoredFor(t).turns = frame[t].before.turns

\* C12: a successful DeepSeek call that found the non-empty history H
\* persists H followed by the user turn and the assistant turn holding the
\* first choice's content, and returns that content.
C12_DeepSeekSuccessAppends ==
    \A t \in Threads :
        (Succeeded(t) /\ frame[t].provider = "deepseek"
                      /\ frame[t].before.turns # << >>)
        => LET H == frame[t].before.turns
               reply == frame[t].response[1].content
               stored == StoredFor(t).turns
           IN  /\ stored = H \o <<UserMessage(frame[t].prompt),
                                  AssistantMessage(reply)>>
               /\ SubSeq(stored, 1, Len(H)) = H
               /\ Cardinality(SystemPositions(stored))
                    = Cardinality(SystemPositions(H))
               /\ ret[t] = reply

\* The backend answered the second call with two choices
C12_Witness ==
    \E t \in Threads :
        /\ Succeeded(t)
        /\ frame[t].provider = "deepseek"
        /\ frame[t].before.turns # << >>
        /\ Len(frame[t].response) = 2


\* The system context a new DeepSeek conversation starts with
FreshPreamble ==
    IF KNOWLEDGE_BASE_CONTENT # << >>
      THEN <<SystemMessage(KNOWLEDGE_BASE_CONTENT)>>
      ELSE << >>

\* C13: a call that finds an empty stored history sends and persists the
\* same thing whether the entry was cleared (present and empty) or never
\* written: the outbound list is the system context and the user turn only,
\* and a successful call persists exactly that and the reply.
C13_ClearThenGenerateIsFresh ==
    \A t \in Threads :
        (pc[t] # "idle" /\ frame[t].before.turns = << >>)
        => /\ (pc[t] = "ds_create"
                 => frame[t].history
                      = FreshPreamble \o <<UserMessage(frame[t].prompt)>>)
           /\ (pc[t] = "gm_send" => frame[t].history = << >>)
           /\ (Succeeded(t) /\ frame[t].provider = "deepseek"
                 => StoredFor(t).turns
                      = FreshPreamble
                        \o <<UserMessage(frame[t].prompt),
                             AssistantMessage(frame[t].response[1].content)>>)
           /\ (Succeeded(t) /\ frame[t].provider = "gemini"
                 => StoredFor(t).turns
                      = <<UserContent(frame[t].prompt),
                          ModelContent(frame[t].response[1])>>)

\* A successful call on an entry that is present and empty, with a
\* knowledge base to inject again
C13_Witness ==
    \E t \in Threads :
        /\ Succeeded(t)
        /\ frame[t].provider = "deepseek"
        /\ frame[t].before = Entry(<< >>)
        /\ KNOWLEDGE_BASE_CONTENT # << >>
        /\ calls = 2

\* C14 as stated: with an empty knowledge base the fresh user's first
\* successful DeepSeek call persists [system, user, assistant], the system
\* message holding the adapter's static instructions.
C14_StaticInstructionsInstalled ==
    \A t \in Threads :
        (Succeeded(t) /\ frame[t].provider = "deepseek"
                      /\ frame[t].before.turns = << >>
                      /\ KNOWLEDGE_BASE_CONTENT = << >>)
        => /\ Len(StoredFor(t).turns) = 3
           /\ StoredFor(t).turns[1].role = "system"

\* C14 as amended: the fresh user's first successful DeepSeek call persists
\* [system, user:p, assistant:r] when the knowledge base is non-empty, the
\* system message being the fixed lead-in around the knowledge base, and
\* [user:p, assistant:r] when it is empty; it returns r.
C14_SystemInstalledIffKnowledgeBase ==
    \A t \in Threads :
        (Succeeded(t) /\ frame[t].provider = "deepseek"
                      /\ frame[t].before.turns = << >>)
        => LET reply == frame[t].response[1].content
               exchange == <<UserMessage(frame[t].prompt),
                             AssistantMessage(reply)>>
           IN  /\ StoredFor(t).turns =
                     IF KNOWLEDGE_BASE_CONTENT = << >>
                       THEN exchange
                       ELSE <<SystemMessage(KNOWLEDGE_BASE_CONTENT)>>
                            \o exchange
               /\ ret[t] = reply

\* A fresh user's successful call without a knowledge base
C14_Witness ==
    \E t \in Threads :
        /\ Succeeded(t)
        /\ frame[t].provider = "deepseek"
        /\ frame[t].before.turns = << >>
        /\ KNOWLEDGE_BASE_CONTENT = << >>


\* C18 as stated: every call on an initialized adapter has made exactly one
\* external AI call when it returns, on every outcome path.
C18_ExactlyOneAICall ==
    \A t \in Threads :
        (Done(t) /\ ~Disabled(t)) => io[t].ai = 1

\* C18 as amended: a call never makes a second external AI call; when it
\* returns on an initialized adapter it has made exactly one, except that
\* it has made none when the storage read raised.
C18_OneAICallUnlessReadFailed ==
    \A t \in Threads :
        /\ io[t].ai <= 1
        /\ (Done(t) /\ ~Disabled(t))
           => io[t].ai = IF frame[t].raised = "storage_read_exc" THEN 0 ELSE 1

\* The API call failed and the call returned without a second attempt
C18_Witness ==
    \E t \in Threads :
        /\ Done(t)
        /\ frame[t].provider = "deepseek"
        /\ frame[t].raised = "api_exc"
        /\ io[t].ai = 1


\* Histories a thread holds between its read and its write
InFlight(provider) ==
    {frame[t].history : t \in {x \in Threads : frame[x].provider = provider}}

\* C15: with an empty DeepSeek knowledge base no stored or in-flight
\* DeepSeek history holds a system-role message, and with no Gemini
\* instructions and an empty Gemini knowledge base the Gemini model is
\* created with no system instruction.
C15_NoContextWithoutKnowledge ==
    /\ KNOWLEDGE_BASE_CONTENT = << >> =>
         /\ \A u \in Users :
              SystemPositions(shelf[DEEPSEEK_THREADS_DB][u].turns) = {}
         /\ \A h \in InFlight("deepseek") : SystemPositions(h) = {}
    /\ (active_system_instructions = << >>
        /\ GEMINI_KNOWLEDGE_BASE_CONTENT = << >>) =>
         system_instruction = None

C15_Witness ==
    /\ KNOWLEDGE_BASE_CONTENT = << >>
    /\ active_system_instructions = << >>
    /\ GEMINI_KNOWLEDGE_BASE_CONTENT = << >>
    /\ model
    /\ \E u \in Users :
         /\ shelf[DEEPSEEK_THREADS_DB][u].turns # << >>
         /\ shelf[GEMINI_THREADS_DB][u].turns # << >>

\* The parts of every message of a history
PartsOf(history) ==
    UNION {{history[i].parts[j] : j \in DOMAIN history[i].parts} :
             i \in DOMAIN history}

\* A history made of user and model turns that nowhere holds the system
\* instruction
FreeOfSystemInstruction(history) ==
    /\ \A i \in DOMAIN history : history[i].role \in {"user", "model"}
    /\ final_system_instructions # << >> =>
         final_system_instructions \notin PartsOf(history)

\* C16: the Gemini system instruction is an argument of the model and is
\* never a message: no stored Gemini history and no history passed to
\* start_chat or returned by the chat session holds it.
C16_SystemInstructionNeverStored ==
    /\ \A u \in Users :
         FreeOfSystemInstruction(shelf[GEMINI_THREADS_DB][u].turns)
    /\ \A t \in Threads :
         frame[t].provider = "gemini" =>
           /\ FreeOfSystemInstruction(frame[t].fetched)
           /\ FreeOfSystemInstruction(frame[t].history)

C16_Witness ==
    /\ model
    /\ system_instruction = Some(final_system_instructions)
    /\ GEMINI_KNOWLEDGE_BASE_CONTENT # << >>
    /\ \E u \in Users : Len(shelf[GEMINI_THREADS_DB][u].turns) = 4


\* Two finished calls for the same user of the same adapter that read the
\* same stored entry: neither read what the other wrote
Raced(t1, t2) ==
    /\ t1 # t2
    /\ Succeeded(t1) /\ Succeeded(t2)
    /\ frame[t1].provider = frame[t2].provider
    /\ frame[t1].wa_id = frame[t2].wa_id
    /\ frame[t1].fetched = frame[t2].fetched

\* The reply of a successful call
Reply(t) ==
    IF frame[t].provider = "deepseek"
      THEN DeepSeekResult(frame[t].response, TRUE)
      ELSE GeminiResult(frame[t].response, TRUE)

\* C17: when two calls for the same user both read the stored history
\* before either writes, both return their replies and the stored history
\* is the one written by one of them, which holds one exchange on top of
\* what was read: the other call's exchange is lost.
C17_LastWriterWins ==
    \A t1, t2 \in Threads :
        Raced(t1, t2) =>
          /\ ret[t1] = Reply(t1) /\ ret[t2] = Reply(t2)
          /\ StoredFor(t1).turns \in {frame[t1].history, frame[t2].history}
          /\ \A w \in {t1, t2} :
               StoredFor(w).turns = frame[w].history =>
                 /\ IsPrefix(frame[w].fetched, frame[w].history)
                 /\ Len(StoredFor(w).turns) - Len(frame[w].fetched)
                      = IF frame[w].provider = "deepseek"
                           /\ frame[w].fetched = << >>
                          THEN Len(FreshPreamble) + 2
                          ELSE 2

\* Two raced calls with different prompts: the stored history is the second
\* thread's and differs from the first thread's
C17_Witness ==
    /\ Raced(1, 2)
    /\ frame[1].prompt # frame[2].prompt
    /\ StoredFor(1).turns = frame[2].history
    /\ StoredFor(1).turns # frame[1].history


\* The file names of the markers of a loaded content, in its order
Markers(content) == [i \in DOMAIN content |-> content[i].marker]

\* A listed file of a supported type whose extraction returns text
Yields(filename) ==
    /\ files[filename] = "text"
    /\ Extension(Lower(filename)) \in SUPPORTED_EXTENSIONS

\* C19: the loaded content holds exactly one marker for each listed file of
\* a supported type whose extraction returns text, the markers are in
\* increasing file name order whatever the listing order, and every other
\* entry adds nothing and does not end the scan.
C19_MarkersSortedPerYieldingFile ==
    loaded.done =>
      LET markers == Markers(loaded.content)
      IN  /\ Range(markers) = {f \in Range(listing) : Yields(f)}
          /\ Len(markers) = Cardinality(Range(markers))
          /\ \A i, j \in DOMAIN markers :
               i < j => Less(markers[i], markers[j])
          /\ \A i \in DOMAIN loaded.content :
               loaded.content[i].text = FileText

\* A listing out of order with a failing file and an unsupported file that
\* come, in file name order, before a file that yields text
C19_Witness ==
    /\ loaded.done
    /\ Len(loaded.content) = 2
    /\ \E i, j \in DOMAIN listing :
         /\ i < j
         /\ Less(listing[j], listing[i])
         /\ Yields(listing[i]) /\ Yields(listing[j])
    /\ \E f, g, h \in Range(listing) :
         /\ files[f] = "raises"
         /\ Extension(Lower(f)) \in SUPPORTED_EXTENSIONS
         /\ Extension(Lower(g)) \notin SUPPORTED_EXTENSIONS
         /\ Yields(h)
         /\ Less(f, h) /\ Less(g, h)


\* C20: when generate_response returns for a provider setting of gemini or
\* deepseek, the generate operation of that provider's adapter was called
\* with (prompt, userId, name) and the value returned is the adapter's
\* return value.
C20_RouterDispatchesToSelectedAdapter ==
    \A t \in Threads :
        (router[t].at = "returned"
         /\ router[t].ai_provider \in {"gemini", "deepseek"})
        => /\ router[t].invoked = router[t].ai_provider
           /\ router[t].args = <<router[t].message_body, router[t].wa_id,
                                 router[t].name>>
           /\ router[t].response_text = ret[t]


\* The turns of a history after its leading system message, if it has one
Exchanges(history) ==
    IF history # << >> /\ history[1].role = "system"
      THEN Tail(history)
      ELSE history

\* Empty, or an optional leading system message and then one or more
\* (user, assistant) pairs
WellPaired(history) ==
    LET body == Exchanges(history)
    IN  /\ history # << >> => body # << >>
        /\ Len(body) % 2 = 0
        /\ \A i \in DOMAIN body :
             body[i].role = IF i % 2 = 1 THEN "user" ELSE "assistant"

\* C21: every stored DeepSeek history is empty or an optional leading
\* system message followed by one or more (user, assistant) pairs; a lone
\* system message and a trailing user turn are never stored.
C21_StoredHistoryWellPaired ==
    \A u \in Users : WellPaired(shelf[DEEPSEEK_THREADS_DB][u].turns)

\* A malformed response to the first message of a conversation with a
\* knowledge base: the rolled-back history is the lone system message and
\* the empty history is stored in its place
C21_Witness ==
    \E t \in Threads :
        /\ Malformed(t)
        /\ frame[t].provider = "deepseek"
        /\ frame[t].history = <<SystemMessage(KNOWLEDGE_BASE_CONTENT)>>
        /\ StoredFor(t).present
        /\ StoredFor(t).turns = << >>


\* C22: with a non-empty knowledge base, whatever the interleaving of two
\* DeepSeek calls, every stored DeepSeek history holds at most one system
\* message, in first position, and the history a successful call wrote holds
\* exactly one.
C22_SingleSystemSurvivesRace ==
    KNOWLEDGE_BASE_CONTENT # << >> =>
      /\ \A u \in Users :
           SystemPositions(shelf[DEEPSEEK_THREADS_DB][u].turns) \subseteq {1}
      /\ \A t \in Threads :
           (Succeeded(t) /\ frame[t].provider = "deepseek") =>
             SystemPositions(frame[t].history) = {1}

\* Two calls for one new user that both read the empty history, both added
\* the system message and both stored
C22_Witness ==
    /\ Raced(1, 2)
    /\ frame[1].provider = "deepseek"
    /\ KNOWLEDGE_BASE_CONTENT # << >>
    /\ frame[1].fetched = << >>
    /\ ~frame[1].before.present
    /\ frame[1].history[1] = SystemMessage(KNOWLEDGE_BASE_CONTENT)
    /\ frame[2].history[1] = SystemMessage(KNOWLEDGE_BASE_CONTENT)
    /\ Len(StoredFor(1).turns) = 3


\* The keys whose stored entry a step changes
ChangedKeys ==
    {k \in DbNames \X Users : shelf'[k[1]][k[2]] # shelf[k[1]][k[2]]}

\* The threads a step moves
Movers == {t \in Threads : pc'[t] # pc[t]}

\* C23: a step of a generate call for user U changes no stored entry but
\* that of U in the adapter's store and reads no entry but that one, and a
\* clear changes one entry only, also when two threads interleave.
C23_PerKeyFrame ==
    [][/\ Cardinality(ChangedKeys) <= 1
       /\ \A t \in Movers :
            /\ ChangedKeys \subseteq {<<DbOf(t), frame[t].wa_id>>}
            /\ (pc[t] \in {"ds_read", "gm_read"} /\ frame'[t].raised = "none")
                 => frame'[t].fetched = StoredFor(t).turns
       /\ (Movers = {} /\ ChangedKeys # {}) =>
            \A k \in ChangedKeys : shelf'[k[1]][k[2]] = Entry(<< >>)]_vars

\* A call for u1 has stored its history while a call for u2 of the same
\* adapter, started before that, waits to store its own; the entry of u2 is
\* as the second call found it
C23_Witness ==
    /\ Succeeded(1)
    /\ frame[1].wa_id = "u1"
    /\ frame[2].wa_id = "u2"
    /\ frame[2].provider = frame[1].provider
    /\ pc[2] \in {"ds_store", "gm_store"}
    /\ StoredFor(1).turns = frame[1].history
    /\ StoredFor(2) = frame[2].before


\* send_message has returned to the thread's call without raising
SendReturned(t) ==
    /\ frame[t].provider = "gemini"
    /\ io[t].ai = 1
    /\ frame[t].raised \notin AIExceptions

\* C24: once send_message has returned without raising, nothing is returned
\* before store_gemini_thread has been called; the call then stores the chat
\* session's history whether or not the response is usable, and returns the
\* reply text or the apology only after the store (and neither of them if
\* the store raised).
C24_StoreBeforeValidation ==
    \A t \in Threads :
        SendReturned(t) =>
          /\ pc[t] \in {"gm_store", "done"}
          /\ pc[t] = "gm_store" => (ret[t] = << >> /\ io[t].writes = 0)
          /\ Done(t) =>
               /\ io[t].writes = 1
               /\ frame[t].raised = "none" =>
                    /\ StoredFor(t).present
                    /\ StoredFor(t).turns = frame[t].history
                    /\ ret[t] = IF frame[t].usable
                                  THEN frame[t].response[1][1]
                                  ELSE GeminiApology
               /\ frame[t].raised # "none" =>
                    /\ StoredFor(t) = frame[t].before
                    /\ ret[t] = GeminiCommError(frame[t].raised)

\* A response whose candidate has no parts: the exchange is stored and the
\* apology returned
C24_Witness ==
    \E t \in Threads :
        /\ SendReturned(t)
        /\ Malformed(t)
        /\ frame[t].response # << >>
        /\ StoredFor(t).turns =
             frame[t].fetched \o <<UserContent(frame[t].prompt),
                                   ModelContent(frame[t].response[1])>>
        /\ ret[t] = GeminiApology

====
